---- MODULE Spec2Model ----
(***************************************************************************)
(* Session lifecycle and ledger of the reading marketplace server          *)
(* (server/src/routes/sessions.ts: request, accept, decline, end, review;   *)
(* readers.ts: PATCH /me and PATCH /me/status; payments.ts: add-funds;      *)
(* webhooks.ts: payment success; the admin refund and notification          *)
(* broadcast; notifications.ts: GET /; jobs/payouts.ts: the scheduled       *)
(* payout run; the reader-side notification subscriber of Layout.tsx;       *)
(* types/index.ts: sessionLimiter; config/ably.ts: publishToChannel).       *)
(* Every route handler is an async function: each awaited                  *)
(* database statement is one atomic step, and the steps of handlers served *)
(* by different request workers interleave freely (the code opens no       *)
(* transaction and takes no row lock).  Money is kept in cents, the unit   *)
(* of the decimal(10,2) columns; time is kept in milliseconds.             *)
(***************************************************************************)
EXTENDS Integers, Sequences, FiniteSets, Bags, TLC

VARIABLES
    readerProfiles,   \* reader id -> row of reader_profiles
    clientProfiles,   \* client id -> row of client_profiles
    readingSessions,  \* sequence of reading_sessions rows; the id is the index
    transactions,     \* sequence of transactions rows (the journal)
    published,        \* bag of messages handed to the pub/sub service
    clock,            \* wall clock (new Date()), in ms
    pc,               \* request worker -> the handler it runs and where it is
    served,           \* number of handler runs that passed their checks
    response,         \* the HTTP response sent by the last step, if any
    reviews,          \* sequence of reviews rows
    pendingPayouts,   \* sequence of pending_payouts rows; the id is the index
    transfers,        \* sequence of the transfers the payment provider made
    job,              \* the payout run in progress and where it is
    notifications,    \* sequence of notifications rows
    limiter           \* the store of the session-request rate limiter

vars == <<readerProfiles, clientProfiles, readingSessions, transactions,
          published, clock, pc, served, response,
          reviews, pendingPayouts, transfers, job, notifications, limiter>>

db == <<readerProfiles, clientProfiles, readingSessions, transactions>>

\* what the session routes request, accept, decline and end never touch
ext == <<reviews, pendingPayouts, transfers, job, notifications, limiter>>

----------------------------------------------------------------------------
(* Bounds of the model *)

MaxSessions == 2
MaxTicks == 1
MaxRuns == 4

Workers == {"w1", "w2"}
Clients == {"c1", "c2"}
Readers == {"r1"}
Users == Clients \cup Readers
\* the request bodies tried, <<subject, readerId, type>>: "r0" has no reader
\* profile, "tarot" is no session type, "r1" has no client profile
RequestInputs ==
    {<<"c1", "r1", "chat">>, <<"c2", "r1", "chat">>, <<"c2", "r1", "voice">>,
     <<"c1", "r0", "chat">>, <<"c1", "r1", "tarot">>, <<"r1", "r1", "chat">>}
\* elapsed wall-clock time between two steps, in ms
TickDeltas == {90000, 420500}

----------------------------------------------------------------------------
(* Values *)

NoTime == -1
NoResponse ==
    [op |-> "none", user |-> "", sessionId |-> 0, readerId |-> "", status |-> 0,
     error |-> "none", message |-> ""]
Idle == [op |-> "idle"]
\* no payout run in progress
JobIdle == [step |-> "idle"]
\* the rate limiter's store when the server starts: no key has a hit
NoHits ==
    [hits |-> [u \in {"c1", "c2", "r1"} |-> 0],
     resetTime |-> [u \in {"c1", "c2", "r1"} |-> 0],
     perKey |-> TRUE, seen |-> 0, admitted |-> <<>>]

\* res.json(...): the success answer of operation op about a session
Ok(op, user, sessionId, status) ==
    [op |-> op, user |-> user, sessionId |-> sessionId, readerId |-> "",
     status |-> status, error |-> "none", message |-> ""]

\* a thrown error, answered by the error handler
Err(op, user, sessionId, readerId, error, message) ==
    [op |-> op, user |-> user, sessionId |-> sessionId, readerId |-> readerId,
     status |-> 0, error |-> error, message |-> message]

\* Math.ceil(a / b) for b > 0
Ceil(a, b) == -((-a) \div b)

\* numeric -> decimal(10,2): a value given in tenths of a cent is rounded to
\* whole cents, half away from zero
ToDecimal2(mills) ==
    IF mills >= 0 THEN (mills + 5) \div 10 ELSE -((-mills + 5) \div 10)

\* Rates r (in cents, below 2.00) for which the double product 3 * r/100
\* is one ulp above the double nearest to the decimal value of 3r/100
\* (e.g. 0.1 * 3 = 0.30000000000000004 > 0.3).
TripleRoundsUp ==
    {5, 7, 10, 14, 19, 20, 23, 28, 38, 40, 46, 55, 56, 63, 65, 67, 76, 80, 92,
     101, 105, 109, 110, 112, 126, 130, 134, 135, 152, 159, 160, 177, 184, 185}

\* Number(client.balance) < ratePerMin * 3, both doubles
BelowMinimumBalance(balance, ratePerMin) ==
    \/ balance < 3 * ratePerMin
    \/ balance = 3 * ratePerMin /\ ratePerMin \in TripleRoundsUp

IsSessionType(type) == type \in {"chat", "voice", "video"}

\* the switch on the session type
RateFor(reader, type) ==
    CASE type = "chat" -> reader.chatRatePerMin
      [] type = "voice" -> reader.voiceRatePerMin
      [] type = "video" -> reader.videoRatePerMin

Notification(userId, type, sessionId) ==
    [channel |-> "notifications", to |-> userId, event |-> type, sessionId |-> sessionId]

ReaderStatusUpdate(readerId, status) ==
    [channel |-> "readers:status", to |-> readerId, event |-> status, sessionId |-> 0]

SessionEvent(sessionId, eventName) ==
    [channel |-> "reading", to |-> "", event |-> eventName, sessionId |-> sessionId]

Publish(bag, msg) == bag (+) SetToBag({msg})

Ticks(t) == (t \div 420500) + ((t % 420500) \div 90000)

InFlight(op) == Cardinality({w \in Workers : pc[w].op = op})

----------------------------------------------------------------------------
(* Initial state: a seeded database, every worker idle *)

InitBase ==
    /\ readerProfiles = [r \in Readers |->
           [status |-> "online", chatRatePerMin |-> 150, voiceRatePerMin |-> 110,
            videoRatePerMin |-> 150, totalReadings |-> 0,
            pendingBalance |-> 0, totalEarned |-> 0, totalPaidOut |-> 0,
            id |-> "p1", stripeAccountId |-> "", stripeAccountStatus |-> "pending",
            rating |-> 0, totalReviews |-> 0]]
    /\ clientProfiles = [c \in Clients |->
           [balance |-> IF c = "c1" THEN 1000 ELSE 330, totalSpent |-> 0,
            stripeCustomerId |-> IF c = "c1" THEN "cus_c1" ELSE ""]]
    /\ readingSessions = <<>>
    /\ transactions = <<>>
    /\ published = EmptyBag
    /\ clock = 0
    /\ pc = [w \in Workers |-> Idle]
    /\ served = 0
    /\ response = NoResponse
    /\ reviews = <<>>
    /\ pendingPayouts = <<>>
    /\ transfers = <<>>
    /\ job = JobIdle
    /\ notifications = <<>>

Init == InitBase /\ limiter = NoHits

----------------------------------------------------------------------------
(* The clock advances between steps *)

Tick(d) ==
    /\ Ticks(clock) < MaxTicks
    /\ clock' = clock + d
    /\ response' = NoResponse
    /\ UNCHANGED <<db, published, pc, served>>
    /\ UNCHANGED ext

----------------------------------------------------------------------------
(* POST /sessions/request *)

\* a presence that lets a reader get a request: any other status fails the check
ReaderAvailable_AnyButOffline(status) == status # "offline"

\* reader.status !== 'online' fails the request
ReaderAvailable(status) == status = "online"

\* the type check, the reader lookup and the presence check
RequestChecks(w, u, readerId, type) ==
    /\ UNCHANGED <<db, published, clock>>
    /\ IF ~IsSessionType(type)
         THEN /\ response' = Err("request", u, 0, readerId, "ValidationError", "Invalid session type")
              /\ pc' = [pc EXCEPT ![w] = Idle]
              /\ UNCHANGED served
       ELSE IF readerId \notin DOMAIN readerProfiles
         THEN /\ response' = Err("request", u, 0, readerId, "NotFoundError", "Reader")
              /\ pc' = [pc EXCEPT ![w] = Idle]
              /\ UNCHANGED served
       ELSE IF ~ReaderAvailable(readerProfiles[readerId].status)
         THEN /\ response' = Err("request", u, 0, readerId, "ValidationError", "Reader is not available")
              /\ pc' = [pc EXCEPT ![w] = Idle]
              /\ UNCHANGED served
       ELSE /\ served < MaxRuns
            /\ served' = served + 1
            /\ response' = NoResponse
            /\ pc' = [pc EXCEPT ![w] =
                   [op |-> "request", step |-> "client", user |-> u,
                    sessionId |-> 0, readerId |-> readerId, type |-> type,
                    reader |-> readerProfiles[readerId], ratePerMin |-> 0]]
    /\ UNCHANGED ext

\* the handler of a request starts on an idle worker
RequestStart(w, u, readerId, type) ==
    /\ pc[w] = Idle
    /\ Len(readingSessions) + InFlight("request") < MaxSessions
    /\ RequestChecks(w, u, readerId, type)

\* the client lookup, the rate for the type and the balance gate
RequestClient(w) ==
    /\ pc[w].op = "request" /\ pc[w].step = "client"
    /\ UNCHANGED <<db, published, clock, served>>
    /\ LET u == pc[w].user
           ratePerMin == RateFor(pc[w].reader, pc[w].type)
       IN IF u \notin DOMAIN clientProfiles
            THEN /\ response' = Err("request", u, 0, pc[w].readerId, "NotFoundError", "Client profile")
                 /\ pc' = [pc EXCEPT ![w] = Idle]
          ELSE IF BelowMinimumBalance(clientProfiles[u].balance, ratePerMin)
            THEN /\ response' = Err("request", u, 0, pc[w].readerId, "InsufficientBalanceError", "Insufficient balance")
                 /\ pc' = [pc EXCEPT ![w] = Idle]
          ELSE /\ response' = NoResponse
               /\ pc' = [pc EXCEPT ![w].step = "insert", ![w].ratePerMin = ratePerMin]
    /\ UNCHANGED ext

NewSession(clientId, readerId, type, ratePerMin) ==
    [clientId |-> clientId, readerId |-> readerId, type |-> type,
     status |-> "pending", ratePerMin |-> ratePerMin,
     startTime |-> NoTime, endTime |-> NoTime, duration |-> 0,
     totalAmount |-> 0, platformFee |-> 0, readerEarnings |-> 0, notes |-> ""]

\* the insert of the session row, the notification of the reader, the response
RequestInsert(w) ==
    /\ pc[w].op = "request" /\ pc[w].step = "insert"
    /\ readingSessions' = Append(readingSessions,
           NewSession(pc[w].user, pc[w].readerId, pc[w].type, pc[w].ratePerMin))
    /\ published' = Publish(published,
           Notification(pc[w].readerId, "session_request", Len(readingSessions) + 1))
    /\ response' = Ok("request", pc[w].user, Len(readingSessions) + 1, 201)
    /\ pc' = [pc EXCEPT ![w] = Idle]
    /\ UNCHANGED <<readerProfiles, clientProfiles, transactions, clock, served>>
    /\ UNCHANGED ext

----------------------------------------------------------------------------
(* POST /sessions/:sessionId/accept *)

SessionIds == 1 .. MaxSessions

\* an accept that also runs on a session already active
AcceptableStatus_OrActive(status) == status \in {"pending", "active"}

\* the session status accept requires
AcceptableStatus(status) == status = "pending"

\* the lookup of the session and the three checks of accept
\* an ownership check that lets either party of the session pass
IsSessionReader_OrClient(session, u) == session.readerId = u \/ session.clientId = u

\* session.readerId !== req.userId fails accept and decline
IsSessionReader(session, u) == session.readerId = u

AcceptStart(w, u, sessionId) ==
    /\ pc[w] = Idle
    /\ UNCHANGED <<db, published, clock>>
    /\ IF sessionId \notin DOMAIN readingSessions
         THEN /\ response' = Err("accept", u, sessionId, "", "NotFoundError", "Session")
              /\ UNCHANGED <<pc, served>>
       ELSE IF ~IsSessionReader(readingSessions[sessionId], u)
         THEN /\ response' = Err("accept", u, sessionId, "", "ValidationError", "Only the reader can accept this session")
              /\ UNCHANGED <<pc, served>>
       ELSE IF ~AcceptableStatus(readingSessions[sessionId].status)
         THEN /\ response' = Err("accept", u, sessionId, "", "ValidationError", "Session is not pending")
              /\ UNCHANGED <<pc, served>>
       ELSE /\ served < MaxRuns
            /\ served' = served + 1
            /\ response' = NoResponse
            /\ pc' = [pc EXCEPT ![w] =
                   [op |-> "accept", step |-> "session", user |-> u,
                    sessionId |-> sessionId, session |-> readingSessions[sessionId]]]
    /\ UNCHANGED ext

\* UPDATE reading_sessions SET status = 'active', start_time = now WHERE id
AcceptUpdateSession(w) ==
    /\ pc[w].op = "accept" /\ pc[w].step = "session"
    /\ readingSessions' = [readingSessions EXCEPT
           ![pc[w].sessionId].status = "active",
           ![pc[w].sessionId].startTime = clock]
    /\ pc' = [pc EXCEPT ![w].step = "reader"]
    /\ response' = NoResponse
    /\ UNCHANGED <<readerProfiles, clientProfiles, transactions, published, clock, served>>
    /\ UNCHANGED ext

\* UPDATE reader_profiles SET status = 'in_session' WHERE user_id = subject;
\* then the presence update, the client's notification, session-started and
\* the response
AcceptUpdateReader(w) ==
    /\ pc[w].op = "accept" /\ pc[w].step = "reader"
    /\ readerProfiles' = [readerProfiles EXCEPT ![pc[w].user].status = "in_session"]
    /\ published' = Publish(Publish(Publish(published,
           ReaderStatusUpdate(pc[w].user, "in_session")),
           Notification(pc[w].session.clientId, "session_accepted", pc[w].sessionId)),
           SessionEvent(pc[w].sessionId, "session-started"))
    /\ response' = Ok("accept", pc[w].user, pc[w].sessionId, 200)
    /\ pc' = [pc EXCEPT ![w] = Idle]
    /\ UNCHANGED <<clientProfiles, readingSessions, transactions, clock, served>>
    /\ UNCHANGED ext

----------------------------------------------------------------------------
(* POST /sessions/:sessionId/decline *)

DeclineStart(w, u, sessionId) ==
    /\ pc[w] = Idle
    /\ UNCHANGED <<db, published, clock>>
    /\ IF sessionId \notin DOMAIN readingSessions
         THEN /\ response' = Err("decline", u, sessionId, "", "NotFoundError", "Session")
              /\ UNCHANGED <<pc, served>>
       ELSE IF ~IsSessionReader(readingSessions[sessionId], u)
         THEN /\ response' = Err("decline", u, sessionId, "", "ValidationError", "Only the reader can decline this session")
              /\ UNCHANGED <<pc, served>>
       ELSE IF readingSessions[sessionId].status # "pending"
         THEN /\ response' = Err("decline", u, sessionId, "", "ValidationError", "Session is not pending")
              /\ UNCHANGED <<pc, served>>
       ELSE /\ served < MaxRuns
            /\ served' = served + 1
            /\ response' = NoResponse
            /\ pc' = [pc EXCEPT ![w] =
                   [op |-> "decline", step |-> "session", user |-> u,
                    sessionId |-> sessionId, session |-> readingSessions[sessionId]]]
    /\ UNCHANGED ext

\* UPDATE reading_sessions SET status = 'cancelled', notes = reason WHERE id;
\* then the client's notification and the response
DeclineUpdateSession(w) ==
    /\ pc[w].op = "decline" /\ pc[w].step = "session"
    /\ readingSessions' = [readingSessions EXCEPT
           ![pc[w].sessionId].status = "cancelled",
           ![pc[w].sessionId].notes = "declined"]
    /\ published' = Publish(published,
           Notification(pc[w].session.clientId, "session_declined", pc[w].sessionId))
    /\ response' = Ok("decline", pc[w].user, pc[w].sessionId, 200)
    /\ pc' = [pc EXCEPT ![w] = Idle]
    /\ UNCHANGED <<readerProfiles, clientProfiles, transactions, clock, served>>
    /\ UNCHANGED ext

----------------------------------------------------------------------------
(* POST /sessions/:sessionId/end *)

PlatformFeePercent == 30

\* Math.ceil((endTime - startTime) / 1000)
DurationSeconds(startTime, endTime) == Ceil(endTime - startTime, 1000)

\* whole elapsed minutes only
DurationMinutes_Floor(durationSeconds) == durationSeconds \div 60

\* Math.ceil(durationSeconds / 60)
DurationMinutes(durationSeconds) == Ceil(durationSeconds, 60)

\* durationMinutes * ratePerMin, in cents
TotalAmount(durationMinutes, ratePerMin) == durationMinutes * ratePerMin

\* totalAmount * (platformFeePercent / 100), in tenths of a cent
PlatformFee(totalAmount) == (totalAmount * PlatformFeePercent) \div 10

\* totalAmount - platformFee, in tenths of a cent
ReaderEarnings(totalAmount, platformFee) == totalAmount * 10 - platformFee

\* <<durationMinutes, ratePerMin>> (up to 9 minutes, rates in cents below
\* 2.00) for which the double totalAmount * (30 / 100) is below the half cent
\* that the decimal product is: its toString() rounds down in decimal(10,2)
\* (1 * 1.55 * 0.3 = 0.46499999999999997 is stored as 0.46).
FeeBelowHalfCent ==
    {<<1, 75>>, <<1, 155>>, <<1, 165>>, <<3, 15>>, <<3, 25>>, <<3, 35>>, <<3, 75>>,
     <<3, 85>>, <<3, 95>>, <<3, 165>>, <<5, 9>>, <<5, 15>>, <<5, 31>>, <<5, 41>>,
     <<5, 43>>, <<5, 45>>, <<5, 47>>, <<5, 51>>, <<5, 57>>, <<5, 59>>, <<5, 61>>,
     <<5, 83>>, <<5, 97>>, <<5, 113>>, <<5, 115>>, <<5, 119>>, <<5, 127>>,
     <<5, 139>>, <<5, 141>>, <<5, 143>>, <<5, 147>>, <<5, 151>>, <<5, 155>>,
     <<5, 163>>, <<5, 169>>, <<5, 179>>, <<5, 189>>, <<5, 191>>, <<5, 197>>,
     <<7, 35>>, <<7, 95>>, <<7, 115>>, <<7, 165>>, <<9, 15>>, <<9, 25>>, <<9, 45>>,
     <<9, 95>>, <<9, 145>>}

\* the same for the double totalAmount - platformFee
\* (1 * 1.15 - 0.345 = 0.8049999999999999 is stored as 0.80)
EarningsBelowHalfCent ==
    {<<1, 115>>, <<3, 15>>, <<3, 35>>, <<3, 95>>, <<5, 9>>, <<5, 47>>, <<5, 57>>,
     <<5, 73>>, <<5, 83>>, <<5, 91>>, <<5, 97>>, <<5, 113>>, <<5, 119>>, <<5, 121>>,
     <<5, 163>>, <<5, 169>>, <<5, 191>>, <<7, 35>>, <<7, 65>>, <<7, 95>>, <<7, 165>>,
     <<9, 15>>, <<9, 85>>, <<9, 95>>, <<9, 115>>}

\* platformFee.toString() as stored in a decimal(10,2) column, in cents
StoredFee(durationMinutes, ratePerMin) ==
    ToDecimal2(PlatformFee(TotalAmount(durationMinutes, ratePerMin)))
      - (IF <<durationMinutes, ratePerMin>> \in FeeBelowHalfCent THEN 1 ELSE 0)

\* readerEarnings.toString() as stored in a decimal(10,2) column, in cents
StoredEarnings(durationMinutes, ratePerMin) ==
    LET totalAmount == TotalAmount(durationMinutes, ratePerMin)
    IN ToDecimal2(ReaderEarnings(totalAmount, PlatformFee(totalAmount)))
         - (IF <<durationMinutes, ratePerMin>> \in EarningsBelowHalfCent THEN 1 ELSE 0)

\* the reader's rate of today for the type of the session
BillingRate_Current(session, reader) == RateFor(reader, session.type)

\* Number(session.ratePerMin): the rate end bills is the one in the session row
BillingRate(session, reader) == session.ratePerMin

\* an end that also runs on a session still pending
EndableStatus_OrPending(status) == status \in {"active", "pending"}

\* an end that also runs on a session already completed
EndableStatus_OrCompleted(status) == status \in {"active", "completed"}

\* the session status end requires
EndableStatus(status) == status = "active"

\* the lookup of the session, the checks of end and the charge computation
\* session.clientId !== req.userId && session.readerId !== req.userId fails end
IsSessionParty(session, u) == session.clientId = u \/ session.readerId = u

EndStart(w, u, sessionId) ==
    /\ pc[w] = Idle
    /\ UNCHANGED <<db, published, clock>>
    /\ IF sessionId \notin DOMAIN readingSessions
         THEN /\ response' = Err("end", u, sessionId, "", "NotFoundError", "Session")
              /\ UNCHANGED <<pc, served>>
       ELSE IF ~IsSessionParty(readingSessions[sessionId], u)
         THEN /\ response' = Err("end", u, sessionId, "", "ValidationError", "Not authorized to end this session")
              /\ UNCHANGED <<pc, served>>
       ELSE IF ~EndableStatus(readingSessions[sessionId].status)
         THEN /\ response' = Err("end", u, sessionId, "", "ValidationError", "Session is not active")
              /\ UNCHANGED <<pc, served>>
       ELSE LET session == readingSessions[sessionId]
                endTime == clock
                startTime == IF session.startTime = NoTime THEN clock ELSE session.startTime
                durationSeconds == DurationSeconds(startTime, endTime)
                durationMinutes == DurationMinutes(durationSeconds)
                ratePerMin == BillingRate(session, readerProfiles[session.readerId])
                totalAmount == TotalAmount(durationMinutes, ratePerMin)
            IN /\ served < MaxRuns
               /\ served' = served + 1
               /\ response' = NoResponse
               /\ pc' = [pc EXCEPT ![w] =
                      [op |-> "end", step |-> "session", user |-> u,
                       sessionId |-> sessionId, session |-> session,
                       endTime |-> endTime, durationSeconds |-> durationSeconds,
                       totalAmount |-> totalAmount,
                       platformFee |-> StoredFee(durationMinutes, ratePerMin),
                       readerEarnings |-> StoredEarnings(durationMinutes, ratePerMin)]]
    /\ UNCHANGED ext

\* UPDATE reading_sessions SET status = 'completed', ... WHERE id
EndUpdateSession(w) ==
    /\ pc[w].op = "end" /\ pc[w].step = "session"
    /\ readingSessions' = [readingSessions EXCEPT
           ![pc[w].sessionId].status = "completed",
           ![pc[w].sessionId].endTime = pc[w].endTime,
           ![pc[w].sessionId].duration = pc[w].durationSeconds,
           ![pc[w].sessionId].totalAmount = ToDecimal2(pc[w].totalAmount * 10),
           ![pc[w].sessionId].platformFee = pc[w].platformFee,
           ![pc[w].sessionId].readerEarnings = pc[w].readerEarnings]
    /\ pc' = [pc EXCEPT ![w].step = "client"]
    /\ response' = NoResponse
    /\ UNCHANGED <<readerProfiles, clientProfiles, transactions, published, clock, served>>
    /\ UNCHANGED ext

\* the amount end takes from the client's balance, given the balance held
Debit(balance, totalAmount) == totalAmount

\* UPDATE client_profiles SET balance = balance - total, total_spent = total_spent + total
EndDebitClient(w) ==
    /\ pc[w].op = "end" /\ pc[w].step = "client"
    /\ LET c == pc[w].session.clientId
           charged == Debit(clientProfiles[c].balance, pc[w].totalAmount)
       IN clientProfiles' = [clientProfiles EXCEPT
              ![c].balance = @ - charged,
              ![c].totalSpent = @ + charged]
    /\ pc' = [pc EXCEPT ![w].step = "journal"]
    /\ response' = NoResponse
    /\ UNCHANGED <<readerProfiles, readingSessions, transactions, published, clock, served>>
    /\ UNCHANGED ext

Transaction(userId, sessionId, type, amount, fee, netAmount, status, intent) ==
    [userId |-> userId, sessionId |-> sessionId, type |-> type, amount |-> amount,
     fee |-> fee, netAmount |-> netAmount, status |-> status, intent |-> intent]

\* INSERT INTO transactions: the reading_payment and the reading_earning row
EndInsertTransactions(w) ==
    /\ pc[w].op = "end" /\ pc[w].step = "journal"
    /\ LET total == ToDecimal2(pc[w].totalAmount * 10)
       IN transactions' = transactions \o
              << Transaction(pc[w].session.clientId, pc[w].sessionId, "reading_payment",
                             total, 0, total, "completed", 0),
                 Transaction(pc[w].session.readerId, pc[w].sessionId, "reading_earning",
                             total, pc[w].platformFee,
                             pc[w].readerEarnings, "completed", 0) >>
    /\ pc' = [pc EXCEPT ![w].step = "reader"]
    /\ response' = NoResponse
    /\ UNCHANGED <<readerProfiles, clientProfiles, readingSessions, published, clock, served>>
    /\ UNCHANGED ext

\* the reader's credit that end writes to pending_balance and total_earned
ReaderCredit(readerEarnings) == 0

\* UPDATE reader_profiles SET status = 'online', total_readings = total_readings + 1;
\* then the presence update, session-ended, one notification per party and
\* the response
EndUpdateReader(w) ==
    /\ pc[w].op = "end" /\ pc[w].step = "reader"
    /\ LET r == pc[w].session.readerId
           credit == ReaderCredit(pc[w].readerEarnings)
       IN readerProfiles' = [readerProfiles EXCEPT
              ![r].status = "online",
              ![r].totalReadings = @ + 1,
              ![r].pendingBalance = @ + credit,
              ![r].totalEarned = @ + credit]
    /\ published' = Publish(Publish(Publish(Publish(published,
           ReaderStatusUpdate(pc[w].session.readerId, "online")),
           SessionEvent(pc[w].sessionId, "session-ended")),
           Notification(pc[w].session.clientId, "session_ended", pc[w].sessionId)),
           Notification(pc[w].session.readerId, "session_ended", pc[w].sessionId))
    /\ response' = Ok("end", pc[w].user, pc[w].sessionId, 200)
    /\ pc' = [pc EXCEPT ![w] = Idle]
    /\ UNCHANGED <<clientProfiles, readingSessions, transactions, clock, served>>
    /\ UNCHANGED ext

----------------------------------------------------------------------------
(* A handler that has passed its checks stops at an await: the statement or *)
(* the publish throws (the error handler answers 500), or the process dies. *)
(* What it has written stays written: no handler opens a transaction.       *)

HandlerFail(w) ==
    /\ pc[w] # Idle
    /\ pc' = [pc EXCEPT ![w] = Idle]
    /\ response' = Err(pc[w].op, pc[w].user, pc[w].sessionId, "", "Error", pc[w].step)
    /\ UNCHANGED <<db, published, clock, served>>
    /\ UNCHANGED ext

----------------------------------------------------------------------------

Next ==
    \/ \E d \in TickDeltas : Tick(d)
    \/ \E w \in Workers, i \in RequestInputs : RequestStart(w, i[1], i[2], i[3])
    \/ \E w \in Workers : RequestClient(w)
    \/ \E w \in Workers : RequestInsert(w)
    \/ \E w \in Workers, u \in Users, s \in SessionIds : AcceptStart(w, u, s)
    \/ \E w \in Workers : AcceptUpdateSession(w)
    \/ \E w \in Workers : AcceptUpdateReader(w)
    \/ \E w \in Workers, u \in Users, s \in SessionIds : DeclineStart(w, u, s)
    \/ \E w \in Workers : DeclineUpdateSession(w)
    \/ \E w \in Workers, u \in Users, s \in SessionIds : EndStart(w, u, s)
    \/ \E w \in Workers : EndUpdateSession(w)
    \/ \E w \in Workers : EndDebitClient(w)
    \/ \E w \in Workers : EndInsertTransactions(w)
    \/ \E w \in Workers : EndUpdateReader(w)
    \/ \E w \in Workers : HandlerFail(w)

Spec == Init /\ [][Next]_vars

----------------------------------------------------------------------------
(* The settlement arithmetic of end, over rates and elapsed times: the      *)
(* database holds one session that was requested at the reader's rate and   *)
(* accepted at time 0, and the end arrives after the elapsed time.          *)

\* chat rates of the reader, in cents
SplitRates == {110, 115, 125, 150, 155}
\* time from accept to end, in ms
SplitElapsed == {0, 1, 1000, 59001, 60000, 60001, 61000, 150000}

InitSplit ==
    \E rate \in SplitRates, elapsed \in SplitElapsed :
        /\ readerProfiles = [r \in Readers |->
               [status |-> "in_session", chatRatePerMin |-> rate, voiceRatePerMin |-> 110,
                videoRatePerMin |-> 150, totalReadings |-> 0,
                pendingBalance |-> 0, totalEarned |-> 0, totalPaidOut |-> 0,
                id |-> "p1", stripeAccountId |-> "", stripeAccountStatus |-> "pending",
                rating |-> 0, totalReviews |-> 0]]
        /\ clientProfiles = [c \in Clients |->
               [balance |-> IF c = "c1" THEN 1000 ELSE 330, totalSpent |-> 0,
                stripeCustomerId |-> IF c = "c1" THEN "cus_c1" ELSE ""]]
        /\ readingSessions =
               << [NewSession("c1", "r1", "chat", rate) EXCEPT
                      !.status = "active", !.startTime = 0] >>
        /\ transactions = <<>>
        /\ published = Publish(Publish(Publish(Publish(EmptyBag,
               Notification("r1", "session_request", 1)),
               ReaderStatusUpdate("r1", "in_session")),
               Notification("c1", "session_accepted", 1)),
               SessionEvent(1, "session-started"))
        /\ clock = elapsed
        /\ pc = [w \in Workers |-> Idle]
        /\ served = 2
        /\ response = NoResponse
        /\ reviews = <<>>
        /\ pendingPayouts = <<>>
        /\ transfers = <<>>
        /\ job = JobIdle
        /\ notifications = <<>>
        /\ limiter = NoHits

NextSplit ==
    \/ \E u \in {"c1", "r1"} : EndStart("w1", u, 1)
    \/ EndUpdateSession("w1")
    \/ EndDebitClient("w1")
    \/ EndInsertTransactions("w1")
    \/ EndUpdateReader("w1")

SpecSplit == InitSplit /\ [][NextSplit]_vars

----------------------------------------------------------------------------
(* PATCH /readers/me: a reader changes their per-minute rates while         *)
(* sessions are requested, accepted, declined and ended.                    *)

\* a rate the request body leaves out
NoRate == -1
\* the request bodies tried: the chat and the voice rate, in cents
RateBodies ==
    {[chatRatePerMin |-> 125, voiceRatePerMin |-> NoRate],
     [chatRatePerMin |-> NoRate, voiceRatePerMin |-> 50],
     [chatRatePerMin |-> 150, voiceRatePerMin |-> 110]}

\* UPDATE reader_profiles SET <the rates given> WHERE user_id = subject
UpdateProfile(u, body) ==
    /\ u \in DOMAIN readerProfiles
    /\ readerProfiles' = [readerProfiles EXCEPT
           ![u].chatRatePerMin =
               IF body.chatRatePerMin # NoRate THEN body.chatRatePerMin ELSE @,
           ![u].voiceRatePerMin =
               IF body.voiceRatePerMin # NoRate THEN body.voiceRatePerMin ELSE @]
    /\ response' = Ok("profile", u, 0, 200)
    /\ UNCHANGED <<clientProfiles, readingSessions, transactions, published,
                   clock, pc, served>>
    /\ UNCHANGED ext

\* the requests tried while rates change
RateRequestInputs == {<<"c1", "r1", "chat">>, <<"c2", "r1", "voice">>}

NextRates ==
    \/ \E d \in TickDeltas : Tick(d)
    \/ \E i \in RateRequestInputs : RequestStart("w1", i[1], i[2], i[3])
    \/ RequestClient("w1")
    \/ RequestInsert("w1")
    \/ \E u \in Users, s \in SessionIds : AcceptStart("w1", u, s)
    \/ AcceptUpdateSession("w1")
    \/ AcceptUpdateReader("w1")
    \/ \E u \in Users, s \in SessionIds : DeclineStart("w1", u, s)
    \/ DeclineUpdateSession("w1")
    \/ \E u \in Users, s \in SessionIds : EndStart("w1", u, s)
    \/ EndUpdateSession("w1")
    \/ EndDebitClient("w1")
    \/ EndInsertTransactions("w1")
    \/ EndUpdateReader("w1")
    \/ \E u \in Readers, body \in RateBodies : UpdateProfile(u, body)

SpecRates == Init /\ [][NextRates]_vars

----------------------------------------------------------------------------
(* The ledger outside sessions: POST /payments/add-funds, the payment       *)
(* provider's payment_intent.succeeded webhook and the admin refund.        *)

\* rows the journal may hold
MaxJournal == 3
\* the amounts of add-funds tried, in cents (3.00, 5.00, 600.00)
DepositAmounts == {300, 500, 60000}
\* the transaction ids a refund is tried on
TransactionIds == 1..MaxJournal

\* the payment intents a delivery may be about
IntentIds == 1..MaxJournal

\* the amount check and the client lookup of add-funds
AddFundsStart(w, u, amount) ==
    /\ pc[w] = Idle
    /\ Len(transactions) + InFlight("add-funds") + InFlight("refund") < MaxJournal
    /\ UNCHANGED <<db, published, clock>>
    /\ IF amount < 500
         THEN /\ response' = Err("add-funds", u, 0, "", "ValidationError", "Minimum amount is $5")
              /\ UNCHANGED <<pc, served>>
       ELSE IF amount > 50000
         THEN /\ response' = Err("add-funds", u, 0, "", "ValidationError", "Maximum amount is $500 per transaction")
              /\ UNCHANGED <<pc, served>>
       ELSE IF u \notin DOMAIN clientProfiles \/ clientProfiles[u].stripeCustomerId = ""
         THEN /\ response' = Err("add-funds", u, 0, "", "NotFoundError", "Client profile")
              /\ UNCHANGED <<pc, served>>
       ELSE /\ served < MaxRuns
            /\ served' = served + 1
            /\ response' = NoResponse
            /\ pc' = [pc EXCEPT ![w] =
                   [op |-> "add-funds", step |-> "intent", user |-> u,
                    sessionId |-> 0, amount |-> amount]]
    /\ UNCHANGED ext

\* createPaymentIntent, the insert of the pending deposit row, the response
AddFundsInsert(w) ==
    /\ pc[w].op = "add-funds" /\ pc[w].step = "intent"
    /\ LET paymentIntent == Len(transactions) + 1
       IN transactions' = Append(transactions,
              Transaction(pc[w].user, 0, "deposit", pc[w].amount, 0, pc[w].amount,
                          "pending", paymentIntent))
    /\ response' = Ok("add-funds", pc[w].user, 0, 200)
    /\ pc' = [pc EXCEPT ![w] = Idle]
    /\ UNCHANGED <<readerProfiles, clientProfiles, readingSessions, published, clock, served>>
    /\ UNCHANGED ext

\* a delivery of payment_intent.succeeded for an intent of type add_funds:
\* UPDATE transactions SET status = 'completed' WHERE stripe_payment_intent_id
WebhookStart(w, intent) ==
    /\ pc[w] = Idle
    /\ served < MaxRuns
    /\ \E t \in DOMAIN transactions :
           /\ transactions[t].intent = intent
           /\ transactions[t].type = "deposit"
           /\ pc' = [pc EXCEPT ![w] =
                  [op |-> "webhook", step |-> "credit", user |-> transactions[t].userId,
                   sessionId |-> 0, intent |-> intent, amount |-> transactions[t].amount]]
    /\ transactions' = [t \in DOMAIN transactions |->
           IF transactions[t].intent = intent
             THEN [transactions[t] EXCEPT !.status = "completed"]
             ELSE transactions[t]]
    /\ served' = served + 1
    /\ response' = NoResponse
    /\ UNCHANGED <<readerProfiles, clientProfiles, readingSessions, published, clock>>
    /\ UNCHANGED ext

\* UPDATE client_profiles SET balance = balance + amount; then { received: true }
WebhookCredit(w) ==
    /\ pc[w].op = "webhook" /\ pc[w].step = "credit"
    /\ clientProfiles' = [clientProfiles EXCEPT
           ![pc[w].user].balance = @ + pc[w].amount]
    /\ response' = Ok("webhook", pc[w].user, 0, 200)
    /\ pc' = [pc EXCEPT ![w] = Idle]
    /\ UNCHANGED <<readerProfiles, readingSessions, transactions, published, clock, served>>
    /\ UNCHANGED ext

\* the lookup of the transaction and the checks of the refund
RefundStart(w, transactionId) ==
    /\ pc[w] = Idle
    /\ Len(transactions) + InFlight("add-funds") + InFlight("refund") < MaxJournal
    /\ UNCHANGED <<db, published, clock>>
    /\ IF transactionId \notin DOMAIN transactions
         THEN /\ response' = Err("refund", "admin", 0, "", "NotFoundError", "Transaction")
              /\ UNCHANGED <<pc, served>>
       ELSE IF transactions[transactionId].status = "refunded"
         THEN /\ response' = Err("refund", "admin", 0, "", "ValidationError", "Transaction already refunded")
              /\ UNCHANGED <<pc, served>>
       ELSE /\ served < MaxRuns
            /\ served' = served + 1
            /\ response' = NoResponse
            /\ pc' = [pc EXCEPT ![w] =
                   [op |-> "refund", step |-> "status", user |-> "admin",
                    sessionId |-> 0, transactionId |-> transactionId,
                    txn |-> transactions[transactionId]]]
    /\ UNCHANGED ext

\* UPDATE transactions SET status = 'refunded' WHERE id
RefundUpdate(w) ==
    /\ pc[w].op = "refund" /\ pc[w].step = "status"
    /\ transactions' = [transactions EXCEPT ![pc[w].transactionId].status = "refunded"]
    /\ pc' = [pc EXCEPT ![w].step = "journal"]
    /\ response' = NoResponse
    /\ UNCHANGED <<readerProfiles, clientProfiles, readingSessions, published, clock, served>>
    /\ UNCHANGED ext

\* INSERT INTO transactions: the refund row, with the id of the refunded
\* transaction in its metadata
RefundInsert(w) ==
    /\ pc[w].op = "refund" /\ pc[w].step = "journal"
    /\ transactions' = Append(transactions,
           Transaction(pc[w].txn.userId, 0, "refund", pc[w].txn.amount, 0,
                       pc[w].txn.amount, "completed", 0)
             @@ [originalTransactionId |-> pc[w].transactionId])
    /\ pc' = [pc EXCEPT ![w].step = "credit"]
    /\ response' = NoResponse
    /\ UNCHANGED <<readerProfiles, clientProfiles, readingSessions, published, clock, served>>
    /\ UNCHANGED ext

\* the amount a refund adds to the client's balance
RefundCreditOf(txn) ==
    IF txn.type = "reading_payment" \/ txn.type = "deposit" THEN txn.amount ELSE 0

\* UPDATE client_profiles SET balance = balance + amount for a reading_payment
\* or a deposit; then the response
RefundCredit(w) ==
    /\ pc[w].op = "refund" /\ pc[w].step = "credit"
    /\ clientProfiles' =
           IF pc[w].txn.userId \in DOMAIN clientProfiles
             THEN [clientProfiles EXCEPT
                      ![pc[w].txn.userId].balance = @ + RefundCreditOf(pc[w].txn)]
             ELSE clientProfiles
    /\ response' = Ok("refund", "admin", 0, 200)
    /\ pc' = [pc EXCEPT ![w] = Idle]
    /\ UNCHANGED <<readerProfiles, readingSessions, transactions, published, clock, served>>
    /\ UNCHANGED ext

NextLedger ==
    \/ \E w \in Workers, u \in Clients, a \in DepositAmounts : AddFundsStart(w, u, a)
    \/ \E w \in Workers : AddFundsInsert(w)
    \/ \E w \in Workers, i \in IntentIds : WebhookStart(w, i)
    \/ \E w \in Workers : WebhookCredit(w)
    \/ \E w \in Workers, t \in TransactionIds : RefundStart(w, t)
    \/ \E w \in Workers : RefundUpdate(w)
    \/ \E w \in Workers : RefundInsert(w)
    \/ \E w \in Workers : RefundCredit(w)
    \/ \E w \in Workers : HandlerFail(w)

SpecLedger == Init /\ [][NextLedger]_vars

----------------------------------------------------------------------------
(* The scheduled payout run, processAutomaticPayouts.  The database holds   *)
(* readers with earnings to pay out.  pending_payouts.reader_id references  *)
(* users.id, and the run writes the id of the reader's profile row there:   *)
(* the insert passes the foreign key only for a profile row whose id is     *)
(* also the id of a users row (r2 and r3 below were inserted that way; r1   *)
(* has the id the column default generates).                                *)

MinPayoutAmount == 1500
\* payout runs started
MaxPayoutRuns == 2

PayoutReaders == {"r1", "r2", "r3"}
\* the ids of the users table
UserIds == Clients \cup PayoutReaders \cup {"admin"}

InitPayouts ==
    \E pending2 \in {1499, 1500}, status3 \in {"active", "pending"} :
        /\ readerProfiles = [r \in PayoutReaders |->
               LET pending == IF r = "r2" THEN pending2 ELSE 2000
               IN [status |-> "offline", chatRatePerMin |-> 150, voiceRatePerMin |-> 110,
                   videoRatePerMin |-> 150, totalReadings |-> 0,
                   pendingBalance |-> pending, totalEarned |-> pending, totalPaidOut |-> 0,
                   id |-> IF r = "r1" THEN "p1" ELSE r,
                   stripeAccountId |-> IF r = "r1" THEN "acct_r1"
                                       ELSE IF r = "r2" THEN "acct_r2" ELSE "acct_r3",
                   stripeAccountStatus |-> IF r = "r3" THEN status3 ELSE "active",
                   rating |-> 0, totalReviews |-> 0]]
        /\ clientProfiles = [c \in Clients |->
               [balance |-> IF c = "c1" THEN 1000 ELSE 330, totalSpent |-> 0,
                stripeCustomerId |-> IF c = "c1" THEN "cus_c1" ELSE ""]]
        /\ readingSessions = <<>>
        /\ transactions = <<>>
        /\ published = EmptyBag
        /\ clock = 0
        /\ pc = [w \in Workers |-> Idle]
        /\ served = 0
        /\ response = NoResponse
        /\ reviews = <<>>
        /\ pendingPayouts = <<>>
        /\ transfers = <<>>
        /\ job = JobIdle
        /\ notifications = <<>>
        /\ limiter = NoHits

\* WHERE pending_balance >= MIN_PAYOUT AND stripe_account_status = 'active'
Eligible(reader) ==
    /\ reader.pendingBalance >= MinPayoutAmount
    /\ reader.stripeAccountStatus = "active"

\* the rows of a SELECT without ORDER BY, in any order
RowOrders(S) ==
    {order \in [1..Cardinality(S) -> S] :
        \A i, j \in 1..Cardinality(S) : order[i] = order[j] => i = j}

\* the insert into pending_payouts passes the foreign key to users.id
ForeignKeyHolds(readerId) == readerId \in UserIds

\* the run starts: the select of the eligible readers
JobStart ==
    /\ job = JobIdle
    /\ served < MaxPayoutRuns
    /\ served' = served + 1
    /\ \E order \in RowOrders({r \in DOMAIN readerProfiles : Eligible(readerProfiles[r])}) :
           job' = [step |-> "insert",
                   eligible |-> [i \in DOMAIN order |->
                                    [userId |-> order[i],
                                     id |-> readerProfiles[order[i]].id,
                                     pendingBalance |-> readerProfiles[order[i]].pendingBalance,
                                     stripeAccountId |-> readerProfiles[order[i]].stripeAccountId]],
                   i |-> 1, payoutId |-> 0, transferId |-> 0,
                   processed |-> 0, failed |-> 0, totalAmount |-> 0, outcomes |-> <<>>]
    /\ response' = NoResponse
    /\ UNCHANGED <<db, published, clock, pc, reviews, pendingPayouts, transfers>>
    /\ UNCHANGED <<notifications, limiter>>

\* the reader the loop is at
JobReader == job.eligible[job.i]

\* the loop index after the catch block of a reader: a run that gives up
AfterFailure_Abort(i, n) == n + 1

\* the loop index after the catch block of a reader: the next reader
AfterFailure(i, n) == i + 1

\* a cleanup that marks the reader's rows in flight as paid
MarkFailed_Completed(payouts, readerId) ==
    [p \in DOMAIN payouts |->
        IF payouts[p].readerId = readerId /\ payouts[p].status = "processing"
          THEN [payouts[p] EXCEPT !.status = "completed"]
          ELSE payouts[p]]

\* UPDATE pending_payouts SET status = 'failed'
\*   WHERE reader_id = reader.id AND status = 'processing'
MarkFailed(payouts, readerId) ==
    [p \in DOMAIN payouts |->
        IF payouts[p].readerId = readerId /\ payouts[p].status = "processing"
          THEN [payouts[p] EXCEPT !.status = "failed"]
          ELSE payouts[p]]

\* the catch block of the loop body: failed++, then the best-effort cleanup,
\* which may itself fail and is then ignored
Catch(cleaned) ==
    /\ job' = [job EXCEPT !.step = "insert",
                          !.i = AfterFailure(job.i, Len(job.eligible)),
                          !.failed = @ + 1,
                          !.outcomes = Append(@, "failed")]
    /\ pendingPayouts' = IF cleaned THEN MarkFailed(pendingPayouts, JobReader.id)
                         ELSE pendingPayouts

\* a reader without account id is skipped; else INSERT INTO pending_payouts
\* (reader_id = reader.id, amount, status 'processing')
PayoutInsert ==
    /\ job.step = "insert" /\ job.i <= Len(job.eligible)
    /\ IF JobReader.stripeAccountId = ""
         THEN /\ job' = [job EXCEPT !.i = @ + 1, !.outcomes = Append(@, "skipped")]
              /\ UNCHANGED pendingPayouts
       ELSE IF ~ForeignKeyHolds(JobReader.id)
         THEN \E cleaned \in BOOLEAN : Catch(cleaned)
       ELSE /\ pendingPayouts' = Append(pendingPayouts,
                   [readerId |-> JobReader.id, amount |-> JobReader.pendingBalance,
                    status |-> "processing", stripeTransferId |-> 0])
            /\ job' = [job EXCEPT !.step = "transfer",
                                  !.payoutId = Len(pendingPayouts) + 1]
    /\ response' = NoResponse
    /\ UNCHANGED <<db, published, clock, pc, served, reviews, transfers>>
    /\ UNCHANGED <<notifications, limiter>>

\* transferToReader: the payment provider moves the amount to the account
PayoutTransfer ==
    /\ job.step = "transfer"
    /\ transfers' = Append(transfers,
           [amount |-> JobReader.pendingBalance, destination |-> JobReader.stripeAccountId,
            readerId |-> JobReader.id, payoutId |-> job.payoutId])
    /\ job' = [job EXCEPT !.step = "complete", !.transferId = Len(transfers) + 1]
    /\ response' = NoResponse
    /\ UNCHANGED <<db, published, clock, pc, served, reviews, pendingPayouts>>
    /\ UNCHANGED <<notifications, limiter>>

\* UPDATE pending_payouts SET status = 'completed', stripe_transfer_id WHERE id
PayoutComplete ==
    /\ job.step = "complete"
    /\ pendingPayouts' = [pendingPayouts EXCEPT
           ![job.payoutId].status = "completed",
           ![job.payoutId].stripeTransferId = job.transferId]
    /\ job' = [job EXCEPT !.step = "reset"]
    /\ response' = NoResponse
    /\ UNCHANGED <<db, published, clock, pc, served, reviews, transfers>>
    /\ UNCHANGED <<notifications, limiter>>

\* UPDATE reader_profiles SET pending_balance = '0',
\*   total_paid_out = total_paid_out + <the pending balance selected> WHERE id
PayoutReset ==
    /\ job.step = "reset"
    /\ readerProfiles' = [readerProfiles EXCEPT
           ![JobReader.userId].pendingBalance = 0,
           ![JobReader.userId].totalPaidOut = @ + JobReader.pendingBalance]
    /\ job' = [job EXCEPT !.step = "journal"]
    /\ response' = NoResponse
    /\ UNCHANGED <<clientProfiles, readingSessions, transactions, published, clock,
                   pc, served, reviews, pendingPayouts, transfers>>
    /\ UNCHANGED <<notifications, limiter>>

\* INSERT INTO transactions: the payout row; processed++
PayoutJournal ==
    /\ job.step = "journal"
    /\ transactions' = Append(transactions,
           Transaction(JobReader.userId, 0, "payout", JobReader.pendingBalance, 0,
                       JobReader.pendingBalance, "completed", job.transferId))
    /\ job' = [job EXCEPT !.step = "insert", !.i = @ + 1,
                          !.processed = @ + 1,
                          !.totalAmount = @ + JobReader.pendingBalance,
                          !.outcomes = Append(@, "paid")]
    /\ response' = NoResponse
    /\ UNCHANGED <<readerProfiles, clientProfiles, readingSessions, published, clock,
                   pc, served, reviews, pendingPayouts, transfers>>
    /\ UNCHANGED <<notifications, limiter>>

\* an await of the loop body rejects (the insert, the transfer or a
\* bookkeeping statement): the statement has no effect, the catch block runs
PayoutFail ==
    /\ job.step \in {"insert", "transfer", "complete", "reset", "journal"}
    /\ job.i <= Len(job.eligible)
    /\ JobReader.stripeAccountId # ""
    /\ \E cleaned \in BOOLEAN : Catch(cleaned)
    /\ response' = NoResponse
    /\ UNCHANGED <<db, published, clock, pc, served, reviews, transfers>>
    /\ UNCHANGED <<notifications, limiter>>

\* the loop is over: the run returns its counts
JobFinish ==
    /\ job.step = "insert" /\ job.i > Len(job.eligible)
    /\ job' = JobIdle
    /\ response' = [NoResponse EXCEPT !.op = "payouts", !.sessionId = job.processed,
                                      !.status = job.failed]
    /\ UNCHANGED <<db, published, clock, pc, served, reviews, pendingPayouts, transfers>>
    /\ UNCHANGED <<notifications, limiter>>

\* the steps a run takes when no await rejects
JobAdvance ==
    \/ PayoutInsert
    \/ PayoutTransfer
    \/ PayoutComplete
    \/ PayoutReset
    \/ PayoutJournal
    \/ JobFinish

NextPayouts ==
    \/ JobStart
    \/ PayoutInsert
    \/ PayoutTransfer
    \/ PayoutComplete
    \/ PayoutReset
    \/ PayoutJournal
    \/ PayoutFail
    \/ JobFinish

SpecPayouts == InitPayouts /\ [][NextPayouts]_vars

\* every await of a run settles: it returns or it rejects
SpecPayoutsFair == SpecPayouts /\ WF_vars(JobAdvance)

----------------------------------------------------------------------------
(* POST /sessions/:sessionId/review, beside a session lifecycle served by   *)
(* one worker.                                                              *)

\* rows the reviews table may hold
MaxReviews == 2
\* the ratings tried
Ratings == {0, 1, 5, 6}

\* the rating check, the lookup of the session and the checks of review
ReviewStart(w, u, sessionId, rating) ==
    /\ pc[w] = Idle
    /\ Len(reviews) + InFlight("review") < MaxReviews
    /\ UNCHANGED <<db, published, clock, served>>
    /\ IF rating < 1 \/ rating > 5
         THEN /\ response' = Err("review", u, sessionId, "", "ValidationError", "Rating must be between 1 and 5")
              /\ UNCHANGED pc
       ELSE IF sessionId \notin DOMAIN readingSessions
         THEN /\ response' = Err("review", u, sessionId, "", "NotFoundError", "Session")
              /\ UNCHANGED pc
       ELSE IF readingSessions[sessionId].clientId # u
         THEN /\ response' = Err("review", u, sessionId, "", "ValidationError", "Only the client can review this session")
              /\ UNCHANGED pc
       ELSE IF readingSessions[sessionId].status # "completed"
         THEN /\ response' = Err("review", u, sessionId, "", "ValidationError", "Can only review completed sessions")
              /\ UNCHANGED pc
       ELSE /\ response' = NoResponse
            /\ pc' = [pc EXCEPT ![w] =
                   [op |-> "review", step |-> "existing", user |-> u,
                    sessionId |-> sessionId, session |-> readingSessions[sessionId],
                    rating |-> rating, avgRating |-> 0, totalReviews |-> 0]]
    /\ UNCHANGED ext

\* SELECT FROM reviews WHERE session_id: a review of the session exists
ReviewExisting(w) ==
    /\ pc[w].op = "review" /\ pc[w].step = "existing"
    /\ IF \E i \in DOMAIN reviews : reviews[i].sessionId = pc[w].sessionId
         THEN /\ response' = Err("review", pc[w].user, pc[w].sessionId, "",
                                 "ValidationError", "Session already reviewed")
              /\ pc' = [pc EXCEPT ![w] = Idle]
         ELSE /\ response' = NoResponse
              /\ pc' = [pc EXCEPT ![w].step = "insert"]
    /\ UNCHANGED <<db, published, clock, served>>
    /\ UNCHANGED ext

\* INSERT INTO reviews
ReviewInsert(w) ==
    /\ pc[w].op = "review" /\ pc[w].step = "insert"
    /\ reviews' = Append(reviews,
           [sessionId |-> pc[w].sessionId, clientId |-> pc[w].user,
            readerId |-> pc[w].session.readerId, rating |-> pc[w].rating])
    /\ pc' = [pc EXCEPT ![w].step = "stats"]
    /\ response' = NoResponse
    /\ UNCHANGED <<db, published, clock, served, pendingPayouts, transfers, job>>
    /\ UNCHANGED <<notifications, limiter>>

\* the sum of the ratings among the first n reviews of a reader
RECURSIVE RatingSum(_, _)
RatingSum(readerId, n) ==
    IF n = 0 THEN 0
    ELSE RatingSum(readerId, n - 1)
           + (IF reviews[n].readerId = readerId THEN reviews[n].rating ELSE 0)

\* COUNT(*) of the reviews of a reader
ReviewCount(readerId) ==
    Cardinality({i \in DOMAIN reviews : reviews[i].readerId = readerId})

\* AVG(rating) as stored in decimal(3,2), in hundredths, rounded half up
AvgRating(readerId) ==
    IF ReviewCount(readerId) = 0 THEN 0
    ELSE (200 * RatingSum(readerId, Len(reviews)) + ReviewCount(readerId))
           \div (2 * ReviewCount(readerId))

\* SELECT AVG(rating), COUNT(*) FROM reviews WHERE reader_id
ReviewStats(w) ==
    /\ pc[w].op = "review" /\ pc[w].step = "stats"
    /\ pc' = [pc EXCEPT ![w].step = "reader",
                        ![w].avgRating = AvgRating(pc[w].session.readerId),
                        ![w].totalReviews = ReviewCount(pc[w].session.readerId)]
    /\ response' = NoResponse
    /\ UNCHANGED <<db, published, clock, served>>
    /\ UNCHANGED ext

\* UPDATE reader_profiles SET rating, total_reviews; then the notification of
\* the reader and the response
ReviewUpdateReader(w) ==
    /\ pc[w].op = "review" /\ pc[w].step = "reader"
    /\ readerProfiles' = [readerProfiles EXCEPT
           ![pc[w].session.readerId].rating = pc[w].avgRating,
           ![pc[w].session.readerId].totalReviews = pc[w].totalReviews]
    /\ published' = Publish(published,
           Notification(pc[w].session.readerId, "new_review", pc[w].sessionId))
    /\ response' = Ok("review", pc[w].user, pc[w].sessionId, 201)
    /\ pc' = [pc EXCEPT ![w] = Idle]
    /\ UNCHANGED <<clientProfiles, readingSessions, transactions, clock, served>>
    /\ UNCHANGED ext

NextReviews ==
    \/ RequestStart("w1", "c1", "r1", "chat")
    \/ RequestClient("w1")
    \/ RequestInsert("w1")
    \/ \E s \in SessionIds : AcceptStart("w1", "r1", s)
    \/ AcceptUpdateSession("w1")
    \/ AcceptUpdateReader("w1")
    \/ \E u \in {"c1", "r1"}, s \in SessionIds : EndStart("w1", u, s)
    \/ EndUpdateSession("w1")
    \/ EndDebitClient("w1")
    \/ EndInsertTransactions("w1")
    \/ EndUpdateReader("w1")
    \/ \E w \in Workers, u \in Clients, s \in SessionIds, rating \in Ratings :
           ReviewStart(w, u, s, rating)
    \/ \E w \in Workers : ReviewExisting(w)
    \/ \E w \in Workers : ReviewInsert(w)
    \/ \E w \in Workers : ReviewStats(w)
    \/ \E w \in Workers : ReviewUpdateReader(w)

SpecReviews == Init /\ [][NextReviews]_vars

----------------------------------------------------------------------------
(* The notifications table: POST /admin/notifications/broadcast writes it,  *)
(* GET /notifications reads it. Beside the sessions and reviews of one      *)
(* client and one reader.                                                   *)

\* broadcasts an administrator sends
MaxBroadcasts == 1
\* the targetRole of the body; "" is none
TargetRoles == {"", "reader", "client"}

\* SELECT id FROM users [WHERE role = targetRole]
TargetUsers(targetRole) ==
    CASE targetRole = "" -> Users
      [] targetRole = "reader" -> Readers
      [] targetRole = "client" -> Clients

\* the check of the body passed; the target users are selected
BroadcastStart(w, targetRole) ==
    /\ pc[w] = Idle
    /\ Len(notifications) = 0 /\ InFlight("broadcast") < MaxBroadcasts
    /\ pc' = [pc EXCEPT ![w] =
           [op |-> "broadcast", step |-> "insert", targets |-> TargetUsers(targetRole)]]
    /\ response' = NoResponse
    /\ UNCHANGED <<db, published, clock, served,
                   reviews, pendingPayouts, transfers, job, notifications, limiter>>

\* INSERT INTO notifications for one more target user; after the last one,
\* the response
BroadcastInsert(w) ==
    /\ pc[w].op = "broadcast" /\ pc[w].step = "insert"
    /\ \E u \in pc[w].targets :
         /\ notifications' = Append(notifications, [userId |-> u, type |-> "announcement"])
         /\ IF pc[w].targets = {u}
              THEN /\ pc' = [pc EXCEPT ![w] = Idle]
                   /\ response' = Ok("broadcast", "", 0, 200)
              ELSE /\ pc' = [pc EXCEPT ![w].targets = pc[w].targets \ {u}]
                   /\ response' = NoResponse
    /\ UNCHANGED <<db, published, clock, served,
                   reviews, pendingPayouts, transfers, job, limiter>>

\* GET /notifications: the rows of the user (the limit of 50 is above the
\* rows a bounded run holds)
GetNotifications(userId) ==
    {notifications[i] : i \in {j \in DOMAIN notifications : notifications[j].userId = userId}}

NextInbox ==
    \/ NextReviews
    \/ \E w \in Workers, targetRole \in TargetRoles : BroadcastStart(w, targetRole)
    \/ \E w \in Workers : BroadcastInsert(w)

SpecInbox == Init /\ [][NextInbox]_vars

----------------------------------------------------------------------------
(* PATCH /readers/me/status, beside the session lifecycle of one client and *)
(* one reader served by one worker.                                         *)

\* the status of the body; "away" is not a reader status
StatusBodies == {"online", "offline", "busy", "in_session", "away"}

\* ['online', 'offline', 'busy', 'in_session'].includes(status)
IsReaderStatus(status) == status \in {"online", "offline", "busy", "in_session"}

\* the check of the body; UPDATE reader_profiles SET status WHERE user_id
StatusUpdateReader(w, u, status) ==
    /\ pc[w] = Idle
    /\ IF ~IsReaderStatus(status)
         THEN /\ response' = [Err("status", u, 0, u, "Invalid status", "Invalid status")
                                 EXCEPT !.status = 400]
              /\ UNCHANGED <<readerProfiles, pc, served>>
         ELSE /\ served < MaxRuns
              /\ served' = served + 1
              /\ readerProfiles' = [readerProfiles EXCEPT ![u].status = status]
              /\ response' = NoResponse
              /\ pc' = [pc EXCEPT ![w] =
                     [op |-> "status", step |-> "user", user |-> u, status |-> status]]
    /\ UNCHANGED <<clientProfiles, readingSessions, transactions, published, clock>>
    /\ UNCHANGED ext

\* UPDATE users SET is_online, last_seen WHERE id (the users table holds
\* nothing the other routes of the model read)
StatusUpdateUser(w) ==
    /\ pc[w].op = "status" /\ pc[w].step = "user"
    /\ pc' = [pc EXCEPT ![w].step = "publish"]
    /\ response' = NoResponse
    /\ UNCHANGED <<db, published, clock, served>>
    /\ UNCHANGED ext

\* publishReaderStatus, then the response
StatusPublish(w) ==
    /\ pc[w].op = "status" /\ pc[w].step = "publish"
    /\ published' = Publish(published, ReaderStatusUpdate(pc[w].user, pc[w].status))
    /\ response' = Ok("status", pc[w].user, 0, 200)
    /\ pc' = [pc EXCEPT ![w] = Idle]
    /\ UNCHANGED <<db, clock, served>>
    /\ UNCHANGED ext

NextPresence ==
    \/ \E d \in TickDeltas : Tick(d)
    \/ RequestStart("w1", "c1", "r1", "chat")
    \/ RequestClient("w1")
    \/ RequestInsert("w1")
    \/ \E s \in SessionIds : AcceptStart("w1", "r1", s)
    \/ AcceptUpdateSession("w1")
    \/ AcceptUpdateReader("w1")
    \/ \E s \in SessionIds : DeclineStart("w1", "r1", s)
    \/ DeclineUpdateSession("w1")
    \/ \E u \in {"c1", "r1"}, s \in SessionIds : EndStart("w1", u, s)
    \/ EndUpdateSession("w1")
    \/ EndDebitClient("w1")
    \/ EndInsertTransactions("w1")
    \/ EndUpdateReader("w1")
    \/ \E status \in StatusBodies : StatusUpdateReader("w1", "r1", status)
    \/ StatusUpdateUser("w1")
    \/ StatusPublish("w1")

SpecPresence == Init /\ [][NextPresence]_vars

----------------------------------------------------------------------------
(* The reader's browser: the subscriber of notifications:<reader_id> in the *)
(* page layout.                                                             *)

\* notification.type === 'reading_request'
RaisesIncomingRequest(msg) == msg.event = "reading_request"

\* the sessions for which a connected reader's browser has raised the
\* accept/decline prompt: setIncomingRequest ran for their notification
IncomingRequests(readerId) ==
    {msg.sessionId : msg \in {m \in BagToSet(published) :
        m.channel = "notifications" /\ m.to = readerId /\ RaisesIncomingRequest(m)}}

----------------------------------------------------------------------------
(* POST /sessions/request behind sessionLimiter, the rate limiter of the    *)
(* route, with the memory store that rateLimit() uses when no store is      *)
(* given.  The store counts the hits of a key in a window and forgets them  *)
(* when the window ends; a window starts at the key's first hit, or, in     *)
(* the older store, at the fixed multiples of windowMs since the server     *)
(* started.  Both are modelled.                                             *)

windowMs == 60000
max == 3
\* requests the limiter sees
MaxLimited == 5
\* steps of the clock
MaxLimiterTicks == 2
\* elapsed time between two requests, in ms
LimiterDeltas == {1000, 59000}
\* the requests sent, <<subject, type>>: "tarot" is no session type
LimitedInputs == {<<"c1", "chat">>, <<"c1", "tarot">>, <<"c2", "tarot">>}

InitLimiter ==
    /\ InitBase
    /\ \E perKey \in BOOLEAN : limiter = [NoHits EXCEPT !.perKey = perKey]

\* the steps the clock has made to reach t
LimiterTicks(t) == (t \div 59000) + ((t % 59000) \div 1000)

LimiterTick(d) ==
    /\ LimiterTicks(clock) < MaxLimiterTicks
    /\ clock' = clock + d
    /\ response' = NoResponse
    /\ UNCHANGED <<db, published, pc, served>>
    /\ UNCHANGED ext

\* the end of the window a hit at time now opens
WindowEnd(now, perKey) ==
    IF perKey THEN now + windowMs ELSE ((now \div windowMs) + 1) * windowMs

\* keyGenerator: req.userId
KeyOf(u) == u

\* the middleware: the hit of the key is counted; above max the answer is
\* 429 with the limiter's message, else the handler is called
SessionLimiter(w, u, readerId, type) ==
    /\ pc[w] = Idle
    /\ limiter.seen < MaxLimited
    /\ IsSessionType(type) => Len(readingSessions) + InFlight("request") < MaxSessions
    /\ LET key == KeyOf(u)
           expired == limiter.hits[key] = 0 \/ limiter.resetTime[key] <= clock
           totalHits == (IF expired THEN 0 ELSE limiter.hits[key]) + 1
           resetTime == IF expired THEN WindowEnd(clock, limiter.perKey)
                        ELSE limiter.resetTime[key]
       IN /\ limiter' = [limiter EXCEPT
                 !.hits[key] = totalHits,
                 !.resetTime[key] = resetTime,
                 !.seen = @ + 1,
                 !.admitted = IF totalHits <= max
                                THEN Append(@, [user |-> u, time |-> clock]) ELSE @]
          /\ IF totalHits > max
               THEN /\ response' = [Err("request", u, 0, readerId, "SESSION_RATE_LIMIT_EXCEEDED",
                                        "Too many session requests, please wait before trying again")
                                      EXCEPT !.status = 429]
                    /\ UNCHANGED pc
               ELSE /\ response' = NoResponse
                    /\ pc' = [pc EXCEPT ![w] =
                           [op |-> "request", step |-> "limited", user |-> u,
                            sessionId |-> 0, readerId |-> readerId, type |-> type]]
    /\ UNCHANGED <<db, published, clock, served,
                   reviews, pendingPayouts, transfers, job, notifications>>

\* next(): the handler of a request the limiter let through
RequestAdmitted(w) ==
    /\ pc[w].op = "request" /\ pc[w].step = "limited"
    /\ RequestChecks(w, pc[w].user, pc[w].readerId, pc[w].type)

NextLimiter ==
    \/ \E d \in LimiterDeltas : LimiterTick(d)
    \/ \E i \in LimitedInputs : SessionLimiter("w1", i[1], "r1", i[2])
    \/ RequestAdmitted("w1")
    \/ RequestClient("w1")
    \/ RequestInsert("w1")

SpecLimiter == InitLimiter /\ [][NextLimiter]_vars

----------------------------------------------------------------------------
(* The publishes of accept and end.  publishToChannel awaits one            *)
(* channel.publish and has no catch: when the publish rejects, the error    *)
(* leaves the handler after the statements before it have been committed    *)
(* and the messages before it have been published.                          *)

\* the first k messages of a sequence handed to the pub/sub service
RECURSIVE PublishFirst(_, _, _)
PublishFirst(bag, msgs, k) ==
    IF k = 0 THEN bag ELSE Publish(PublishFirst(bag, msgs, k - 1), msgs[k])

\* what accept publishes, in its order
AcceptMessages(w) ==
    << ReaderStatusUpdate(pc[w].user, "in_session"),
       Notification(pc[w].session.clientId, "session_accepted", pc[w].sessionId),
       SessionEvent(pc[w].sessionId, "session-started") >>

\* what end publishes, in its order
EndMessages(w) ==
    << ReaderStatusUpdate(pc[w].session.readerId, "online"),
       SessionEvent(pc[w].sessionId, "session-ended"),
       Notification(pc[w].session.clientId, "session_ended", pc[w].sessionId),
       Notification(pc[w].session.readerId, "session_ended", pc[w].sessionId) >>

\* accept: the reader update is committed, k publishes succeed and the next
\* one rejects; the error handler answers
AcceptPublishFail(w, k) ==
    /\ pc[w].op = "accept" /\ pc[w].step = "reader"
    /\ k < Len(AcceptMessages(w))
    /\ readerProfiles' = [readerProfiles EXCEPT ![pc[w].user].status = "in_session"]
    /\ published' = PublishFirst(published, AcceptMessages(w), k)
    /\ response' = Err("accept", pc[w].user, pc[w].sessionId, "", "Error", "publish")
    /\ pc' = [pc EXCEPT ![w] = Idle]
    /\ UNCHANGED <<clientProfiles, readingSessions, transactions, clock, served>>
    /\ UNCHANGED ext

\* end: the reader update is committed, k publishes succeed and the next one
\* rejects; the error handler answers
EndPublishFail(w, k) ==
    /\ pc[w].op = "end" /\ pc[w].step = "reader"
    /\ k < Len(EndMessages(w))
    /\ LET r == pc[w].session.readerId
           credit == ReaderCredit(pc[w].readerEarnings)
       IN readerProfiles' = [readerProfiles EXCEPT
              ![r].status = "online",
              ![r].totalReadings = @ + 1,
              ![r].pendingBalance = @ + credit,
              ![r].totalEarned = @ + credit]
    /\ published' = PublishFirst(published, EndMessages(w), k)
    /\ response' = Err("end", pc[w].user, pc[w].sessionId, "", "Error", "publish")
    /\ pc' = [pc EXCEPT ![w] = Idle]
    /\ UNCHANGED <<clientProfiles, readingSessions, transactions, clock, served>>
    /\ UNCHANGED ext

\* the publishes that may succeed before the one that rejects
PublishedBefore == 0..3

NextPublish ==
    \/ \E d \in TickDeltas : Tick(d)
    \/ RequestStart("w1", "c1", "r1", "chat")
    \/ RequestClient("w1")
    \/ RequestInsert("w1")
    \/ \E s \in SessionIds : AcceptStart("w1", "r1", s)
    \/ AcceptUpdateSession("w1")
    \/ AcceptUpdateReader("w1")
    \/ \E k \in PublishedBefore : AcceptPublishFail("w1", k)
    \/ \E u \in {"c1", "r1"}, s \in SessionIds : EndStart("w1", u, s)
    \/ EndUpdateSession("w1")
    \/ EndDebitClient("w1")
    \/ EndInsertTransactions("w1")
    \/ EndUpdateReader("w1")
    \/ \E k \in PublishedBefore : EndPublishFail("w1", k)

SpecPublish == Init /\ [][NextPublish]_vars

----------------------------------------------------------------------------
(* The lifecycle of the sessions of one client and one reader, served by    *)
(* one worker: no two handlers interleave.                                  *)

NextLifecycle ==
    \/ \E d \in TickDeltas : Tick(d)
    \/ RequestStart("w1", "c1", "r1", "chat")
    \/ RequestClient("w1")
    \/ RequestInsert("w1")
    \/ \E u \in {"c1", "r1"}, s \in SessionIds : AcceptStart("w1", u, s)
    \/ AcceptUpdateSession("w1")
    \/ AcceptUpdateReader("w1")
    \/ \E u \in {"c1", "r1"}, s \in SessionIds : DeclineStart("w1", u, s)
    \/ DeclineUpdateSession("w1")
    \/ \E u \in {"c1", "r1"}, s \in SessionIds : EndStart("w1", u, s)
    \/ EndUpdateSession("w1")
    \/ EndDebitClient("w1")
    \/ EndInsertTransactions("w1")
    \/ EndUpdateReader("w1")

SpecLifecycle == Init /\ [][NextLifecycle]_vars

\* the steps of a handler that has passed its checks
HandlerStep(w) ==
    \/ RequestClient(w)
    \/ RequestInsert(w)
    \/ AcceptUpdateSession(w)
    \/ AcceptUpdateReader(w)
    \/ DeclineUpdateSession(w)
    \/ EndUpdateSession(w)
    \/ EndDebitClient(w)
    \/ EndInsertTransactions(w)
    \/ EndUpdateReader(w)

\* the server runs every handler it has started to its end and time passes;
\* nothing makes a client or a reader send a request
SpecLifecycleFair ==
    /\ SpecLifecycle
    /\ WF_vars(HandlerStep("w1"))
    /\ WF_vars(\E d \in TickDeltas : Tick(d))

----------------------------------------------------------------------------
(* Properties *)

ActiveSessionsOf(r) ==
    {s \in DOMAIN readingSessions :
        readingSessions[s].readerId = r /\ readingSessions[s].status = "active"}

Quiescent == \A w \in Workers : pc[w] = Idle

IsParty(u, s) == readingSessions[s].clientId = u \/ readingSessions[s].readerId = u

\* the response is the success of operation op
Succeeded(op) == response.op = op /\ response.error = "none"

\* the response is a rejection by a check of operation op (not a failure midway)
Rejected(op) == response.op = op /\ response.error \notin {"none", "Error"}

\* C1: each reader has at most one session in status active.
C1_AtMostOneActivePerReader ==
    \A r \in Readers : Cardinality(ActiveSessionsOf(r)) <= 1

\* C2: an accept does not succeed while another session of the same reader
\* is active; the losing accept leaves its session cancelled.
C2_OneAcceptWins ==
    Succeeded("accept") =>
        ActiveSessionsOf(readingSessions[response.sessionId].readerId) \subseteq {response.sessionId}

\* C3: outside a running handler every client balance is >= 0.
C3_BalanceNonNegative ==
    (Quiescent /\ response.error # "Error") =>
        \A c \in Clients : clientProfiles[c].balance >= 0

RECURSIVE SumEarnings(_, _)
SumEarnings(r, n) ==
    IF n = 0 THEN 0
    ELSE SumEarnings(r, n - 1) +
         (IF transactions[n].userId = r /\ transactions[n].type = "reading_earning"
            THEN transactions[n].netAmount ELSE 0)

\* C4: after a successful end the reader's pending_balance and total_earned
\* have grown by the session's reader_earnings, together with the journal:
\* they equal the sum of the reader's reading_earning rows.
C4_EndCreditsReader ==
    Succeeded("end") =>
        LET r == readingSessions[response.sessionId].readerId
        IN /\ readerProfiles[r].pendingBalance = SumEarnings(r, Len(transactions))
           /\ readerProfiles[r].totalEarned = SumEarnings(r, Len(transactions))


JournalRowsOf(sessionId) ==
    {n \in DOMAIN transactions : transactions[n].sessionId = sessionId}

C6_FailedEndRollsBack ==
    (/\ response.op = "end" /\ response.error = "Error"
     /\ \A w \in Workers : pc[w].op # "end"
     /\ readerProfiles[readingSessions[response.sessionId].readerId].totalReadings = 0)
    => (/\ readingSessions[response.sessionId].status = "active"
        /\ clientProfiles[readingSessions[response.sessionId].clientId].totalSpent = 0
        /\ JournalRowsOf(response.sessionId) = {})

\* C7: a session's status changes only pending -> active, pending ->
\* cancelled or active -> completed.
C7_StatusTransitions ==
    [][\A s \in DOMAIN readingSessions :
          readingSessions'[s].status # readingSessions[s].status =>
              <<readingSessions[s].status, readingSessions'[s].status>> \in
                  {<<"pending", "active">>, <<"pending", "cancelled">>,
                   <<"active", "completed">>}]_vars

\* C8: the balance gate of request answers InsufficientBalanceError exactly
\* when the client's balance is below 3 x the rate of the requested type.
C8_BalanceGate ==
    [][\A w \in Workers :
          (/\ pc[w].op = "request" /\ pc[w].step = "client"
           /\ pc[w].user \in Clients
           /\ RequestClient(w))
          => ((response'.error = "InsufficientBalanceError") <=>
                 (clientProfiles[pc[w].user].balance
                     < 3 * RateFor(pc[w].reader, pc[w].type)))]_vars

\* the answer READER_UNAVAILABLE: the error "Reader is not available"
IsReaderUnavailable(r) ==
    r.error = "ValidationError" /\ r.message = "Reader is not available"

\* the preconditions of request named by C9, on the rows as stored
RequestAdmissible(readerId, type) ==
    /\ type \in {"chat", "voice", "video"}
    /\ readerId \in Readers
    /\ readerProfiles[readerId].status = "online"

\* C9 (request preconditions): a request passes its first checks only if the type is
\* chat, voice or video, the reader exists and the reader's presence is online
\* when read; otherwise it is refused at once, with ValidationError "Invalid
\* session type" for an unknown type, NotFoundError "Reader" for a missing
\* reader, ValidationError "Reader is not available" for a reader not online,
\* and nothing is written.  A session row is inserted only by a request that
\* passed these checks.
C9_RequestPreconditions ==
    /\ [][\A w \in Workers, i \in RequestInputs :
            RequestStart(w, i[1], i[2], i[3]) =>
               IF RequestAdmissible(i[2], i[3])
                 THEN pc'[w].op = "request" /\ response' = NoResponse
                 ELSE /\ UNCHANGED <<db, published, pc>>
                      /\ response'.op = "request"
                      /\ response'.error \in {"ValidationError", "NotFoundError"}
                      /\ (IsReaderUnavailable(response') <=>
                             (i[3] \in {"chat", "voice", "video"} /\ i[2] \in Readers))]_vars
    /\ [][Len(readingSessions') > Len(readingSessions) =>
            \E w \in Workers :
               /\ pc[w].op = "request" /\ pc[w].step = "insert"
               /\ pc[w].type \in {"chat", "voice", "video"}
               /\ pc[w].readerId \in Readers
               /\ pc[w].reader.status = "online"
               /\ readingSessions' = Append(readingSessions, readingSessions'[Len(readingSessions')])
               /\ readingSessions'[Len(readingSessions')].status = "pending"]_vars

\* a request has just been refused because the reader is in a session
C9_Witness ==
    /\ Rejected("request")
    /\ IsReaderUnavailable(response)
    /\ Len(readingSessions) = 1
    /\ readerProfiles[response.readerId].status = "in_session"

\* C9 as stated: a request whose type is unknown, whose reader is missing or
\* whose reader is not online is answered READER_UNAVAILABLE.
C9_AlwaysReaderUnavailable ==
    [][\A w \in Workers, i \in RequestInputs :
          (RequestStart(w, i[1], i[2], i[3]) /\ ~RequestAdmissible(i[2], i[3]))
          => IsReaderUnavailable(response')]_vars

\* C10: a completed session carries total_amount = ceil(duration / 60) x
\* rate_per_min, and the end that completes it sets duration to the number of
\* seconds, rounded up, between the start_time it read (set by the accept)
\* and its end_time.
C10_TotalAmount ==
    /\ [](\A s \in DOMAIN readingSessions :
            readingSessions[s].status = "completed" =>
                readingSessions[s].totalAmount =
                    ((readingSessions[s].duration + 59) \div 60) * readingSessions[s].ratePerMin)
    /\ [][\A s \in DOMAIN readingSessions :
            (readingSessions[s].status # "completed" /\ readingSessions'[s].status = "completed") =>
                \E w \in Workers :
                   LET elapsed == readingSessions'[s].endTime - pc[w].session.startTime
                   IN /\ pc[w].op = "end" /\ pc[w].sessionId = s
                      /\ pc[w].session.startTime # NoTime
                      /\ readingSessions'[s].endTime = pc[w].endTime
                      /\ readingSessions'[s].duration * 1000 >= elapsed
                      /\ (readingSessions'[s].duration - 1) * 1000 < elapsed]_vars

\* a 90 s session at 1.50 a minute was billed 2 minutes, 3.00
C10_Witness ==
    \E s \in DOMAIN readingSessions :
        /\ readingSessions[s].status = "completed"
        /\ readingSessions[s].duration = 90
        /\ readingSessions[s].ratePerMin = 150
        /\ readingSessions[s].totalAmount = 300

\* C11: for every completed session the stored reader_earnings and
\* platform_fee add up to the stored total_amount, to the cent.
C11_SplitAddsUp ==
    \A s \in DOMAIN readingSessions :
        readingSessions[s].status = "completed" =>
            readingSessions[s].readerEarnings + readingSessions[s].platformFee
                = readingSessions[s].totalAmount

\* C12: every completed session has a duration of at least one second and is
\* billed at least one whole minute of its rate.
C12_AtLeastOneMinute ==
    \A s \in DOMAIN readingSessions :
        readingSessions[s].status = "completed" =>
            /\ readingSessions[s].duration >= 1
            /\ readingSessions[s].totalAmount >= readingSessions[s].ratePerMin

\* C13: when end debits a client whose balance is lower than the total, it
\* takes the whole balance and no more (the balance becomes 0), and fee and
\* earnings of the session are 30% and 70% of the amount collected.
C13_DebitCappedAtBalance ==
    [][\A w \in Workers :
          (/\ EndDebitClient(w)
           /\ clientProfiles[pc[w].session.clientId].balance < pc[w].totalAmount)
          => LET c == pc[w].session.clientId
                 collected == clientProfiles[c].balance
                 s == readingSessions[pc[w].sessionId]
             IN /\ clientProfiles'[c].balance = 0
                /\ s.platformFee = ToDecimal2(collected * 3)
                /\ s.readerEarnings = collected - s.platformFee]_vars

\* C14: the rate_per_min of a session row never changes once the row exists
\* (whatever accept, decline, end or a change of the reader's rates do), and
\* the amount end takes from the client is the billed minutes times the rate
\* in the session row, whatever the reader's rates are at that time.
C14_RateFrozen ==
    /\ [][\A s \in DOMAIN readingSessions :
            readingSessions'[s].ratePerMin = readingSessions[s].ratePerMin]_vars
    /\ [][\A w \in Workers :
            EndDebitClient(w) =>
                LET c == pc[w].session.clientId
                    s == readingSessions[pc[w].sessionId]
                IN clientProfiles'[c].balance =
                       clientProfiles[c].balance
                         - DurationMinutes(s.duration) * s.ratePerMin]_vars

\* a session was charged at its own rate after the reader changed the rate
\* of its type
C14_Witness ==
    \E s \in DOMAIN readingSessions :
        /\ readingSessions[s].status = "completed"
        /\ readingSessions[s].totalAmount > 0
        /\ readingSessions[s].ratePerMin
               # RateFor(readerProfiles[readingSessions[s].readerId], readingSessions[s].type)
        /\ \E t \in DOMAIN transactions :
               /\ transactions[t].sessionId = s
               /\ transactions[t].type = "reading_payment"
               /\ transactions[t].amount
                      = DurationMinutes(readingSessions[s].duration) * readingSessions[s].ratePerMin

\* the balance a client's profile is seeded with
OpeningBalance(c) == IF c = "c1" THEN 1000 ELSE 330

\* the sum of the amounts of the first n journal rows of user u of a type
RECURSIVE JournalSum(_, _, _)
JournalSum(u, type, n) ==
    IF n = 0 THEN 0
    ELSE JournalSum(u, type, n - 1)
           + (IF transactions[n].userId = u /\ transactions[n].type = type
                THEN transactions[n].amount ELSE 0)

\* C15: each payment intent is credited to the client's balance once, however
\* often its success webhook is delivered: what deposits and refunds have
\* added to a balance never exceeds the sum of the deposit rows (one per
\* intent) and of the refund rows.
C15_CreditedOncePerIntent ==
    \A c \in Clients :
        clientProfiles[c].balance - OpeningBalance(c)
            <= JournalSum(c, "deposit", Len(transactions))
                 + JournalSum(c, "refund", Len(transactions))

\* C16: a refund leaves its transaction refunded and gives back exactly what
\* the transaction had taken from or added to the client's balance: the
\* amount of a reading_payment or of a paid deposit, nothing for a deposit
\* that is still pending (never paid).
C16_RefundNetsToZero ==
    [][\A w \in Workers :
          (RefundCredit(w) /\ pc[w].txn.userId \in Clients)
          => LET c == pc[w].txn.userId
                 txn == pc[w].txn
             IN /\ transactions'[pc[w].transactionId].status = "refunded"
                /\ clientProfiles'[c].balance - clientProfiles[c].balance
                     = IF txn.type = "deposit" /\ txn.status = "pending" THEN 0
                       ELSE IF txn.type \in {"deposit", "reading_payment"} THEN txn.amount
                       ELSE 0]_vars

\* C17: a payout run pays every reader whose pending balance is at least the
\* minimum payout (inclusive) and whose account is active: when the run
\* reaches such a reader it records the reader's payout row.
C17_EligibleReaderIsPaid ==
    [][(PayoutInsert /\ Eligible(readerProfiles[JobReader.userId]))
          => /\ Len(pendingPayouts') = Len(pendingPayouts) + 1
             /\ pendingPayouts'[Len(pendingPayouts')].amount
                    = readerProfiles[JobReader.userId].pendingBalance]_vars

\* the sum of the amounts of the first n payout rows of a reader's profile
\* that are still in flight
RECURSIVE InFlightPayouts(_, _)
InFlightPayouts(readerId, n) ==
    IF n = 0 THEN 0
    ELSE InFlightPayouts(readerId, n - 1)
           + (IF pendingPayouts[n].readerId = readerId
                 /\ pendingPayouts[n].status = "processing"
                THEN pendingPayouts[n].amount ELSE 0)

C19_FailureDoesNotBlock ==
    /\ [][(job # JobIdle /\ job' # JobIdle /\ job'.failed # job.failed) =>
              /\ job'.eligible = job.eligible
              /\ job'.i = job.i + 1
              /\ job'.step = "insert"]_vars
    /\ [][JobFinish =>
              /\ Len(job.outcomes) = Len(job.eligible)
              /\ \A j \in DOMAIN job.outcomes :
                     job.outcomes[j] = "paid" =>
                        /\ readerProfiles[job.eligible[j].userId].pendingBalance = 0
                        /\ \E p \in DOMAIN pendingPayouts :
                               /\ pendingPayouts[p].readerId = job.eligible[j].id
                               /\ pendingPayouts[p].status = "completed"]_vars
    /\ (job # JobIdle) ~> (job = JobIdle)

\* the run has been at every eligible reader, and paid one after the payout
\* of an earlier one failed
C19_Witness ==
    /\ job # JobIdle
    /\ Len(job.outcomes) = Len(job.eligible)
    /\ \E j, k \in DOMAIN job.outcomes :
           /\ j < k
           /\ job.outcomes[j] = "failed"
           /\ job.outcomes[k] = "paid"
           /\ \E t \in DOMAIN transfers : transfers[t].readerId = job.eligible[j].id

\* C20: each session has at most one review, every review has a rating from
\* 1 to 5, and every review is of a completed session and by its client.
C20_OneReviewPerSession ==
    /\ \A i, j \in DOMAIN reviews :
           reviews[i].sessionId = reviews[j].sessionId => i = j
    /\ \A i \in DOMAIN reviews :
           /\ reviews[i].rating >= 1 /\ reviews[i].rating <= 5
           /\ reviews[i].sessionId \in DOMAIN readingSessions
           /\ readingSessions[reviews[i].sessionId].status = "completed"
           /\ readingSessions[reviews[i].sessionId].clientId = reviews[i].clientId

\* C21 (second accept): an accept by the reader of a session that is already
\* active is rejected with the validation error "Session is not pending"
\* and changes nothing: the session row and its start_time, the reader
\* profile and the published messages are unchanged.
C21_AcceptOnActiveRejected ==
    [][\A w \in Workers, u \in Users, s \in SessionIds :
          (/\ s \in DOMAIN readingSessions
           /\ readingSessions[s].status = "active"
           /\ readingSessions[s].readerId = u
           /\ AcceptStart(w, u, s))
          => (/\ response' = Err("accept", u, s, "", "ValidationError", "Session is not pending")
              /\ UNCHANGED <<db, published, pc>>)]_vars

\* the reader's second accept has just been refused on an active session
\* whose first accept published its events
C21_Witness ==
    /\ Rejected("accept")
    /\ response.message = "Session is not pending"
    /\ readingSessions[response.sessionId].status = "active"
    /\ readingSessions[response.sessionId].readerId = response.user
    /\ BagIn(SessionEvent(response.sessionId, "session-started"), published)

\* C21 as stated: an accept by the reader of a session that is already
\* active succeeds.
C21_SecondAcceptSucceeds ==
    [][\A w \in Workers, u \in Users, s \in SessionIds :
          (/\ s \in DOMAIN readingSessions
           /\ readingSessions[s].status = "active"
           /\ readingSessions[s].readerId = u
           /\ AcceptStart(w, u, s))
          => response'.error = "none"]_vars

\* C22: an end by a party of a session that was never accepted (pending, or
\* cancelled while pending) is rejected with the validation error "Session
\* is not active" and changes nothing: session, client balance, reader
\* profile and journal are unchanged, nothing is published.
C22_EndBeforeAcceptRejected ==
    [][\A w \in Workers, u \in Users, s \in SessionIds :
          (/\ s \in DOMAIN readingSessions
           /\ readingSessions[s].status \in {"pending", "cancelled"}
           /\ IsParty(u, s)
           /\ EndStart(w, u, s))
          => (/\ response' = Err("end", u, s, "", "ValidationError", "Session is not active")
              /\ UNCHANGED <<db, published, pc>>)]_vars

\* an end by a party has just been refused on a session still pending
C22_Witness ==
    /\ Rejected("end")
    /\ response.message = "Session is not active"
    /\ readingSessions[response.sessionId].status = "pending"
    /\ IsParty(response.user, response.sessionId)
    /\ transactions = <<>>

\* C23: no session stays pending forever: the server moves every pending
\* session out of pending (to cancelled, by its timeout) even if nobody
\* accepts or declines it.
C23_PendingTimesOut ==
    \A s \in SessionIds :
        (s \in DOMAIN readingSessions /\ readingSessions[s].status = "pending")
            ~> (s \in DOMAIN readingSessions /\ readingSessions[s].status # "pending")

\* C24: every message published on a notifications channel of a user has a
\* stored notifications row of that user with the same type, so
\* GET /notifications returns every notification published to the user.
C24_EveryPublishHasRow ==
    \A m \in BagToSet(published) :
        m.channel = "notifications"
            => \E row \in GetNotifications(m.to) : row.type = m.event

\* a status change of reader r by PATCH /readers/me/status starts in this step
StatusRequested(r) ==
    \E w \in Workers : pc[w] = Idle /\ pc'[w].op = "status" /\ pc'[w].user = r

\* C25: while a reader has an active session, a status change the reader
\* requests by PATCH /readers/me/status is rejected: the stored status stays
\* in_session.
C25_StatusChangeRejectedWhileActive ==
    [][\A r \in Readers :
         (StatusRequested(r) /\ ActiveSessionsOf(r) # {}
            /\ readerProfiles[r].status = "in_session")
           => readerProfiles'[r].status = "in_session"]_vars

\* the transitions a reader may request
SelfTransitions ==
    {<<"offline", "online">>, <<"online", "offline">>,
     <<"online", "busy">>, <<"busy", "online">>}

\* C26: a status change requested by the reader is stored only for
\* offline <-> online, online -> busy and busy -> online; any other requested
\* transition leaves the stored status unchanged.
C26_OnlySelfTransitionsApplied ==
    [][\A r \in Readers :
         (StatusRequested(r) /\ readerProfiles'[r].status # readerProfiles[r].status)
           => <<readerProfiles[r].status, readerProfiles'[r].status>> \in SelfTransitions]_vars

\* C30: a reader who has an active session has the status in_session once
\* the handlers in flight have finished, whatever else has run (here the
\* reader's own PATCH /readers/me/status).
C30_ActiveReaderInSession ==
    Quiescent =>
        \A r \in Readers :
            ActiveSessionsOf(r) # {} => readerProfiles[r].status = "in_session"

\* the sum of net_amount over the settled rows of a type among the first n
\* journal rows of user u
RECURSIVE SettledNet(_, _, _)
SettledNet(u, type, n) ==
    IF n = 0 THEN 0
    ELSE SettledNet(u, type, n - 1)
           + (IF transactions[n].userId = u /\ transactions[n].type = type
                 /\ transactions[n].status = "completed"
                THEN transactions[n].netAmount ELSE 0)

\* C27: with no handler in flight, each client's balance is what the settled
\* journal rows of the client add up to (deposits and refunds credited,
\* reading payments debited, on top of the seeded balance), and each reader's
\* settled reading_earning rows add up to pending_balance + total_paid_out.
C27_JournalMatchesProfiles ==
    Quiescent =>
        /\ \A c \in Clients :
              clientProfiles[c].balance
                = OpeningBalance(c)
                    + SettledNet(c, "deposit", Len(transactions))
                    + SettledNet(c, "refund", Len(transactions))
                    - SettledNet(c, "reading_payment", Len(transactions))
        /\ \A r \in Readers :
              SettledNet(r, "reading_earning", Len(transactions))
                = readerProfiles[r].pendingBalance + readerProfiles[r].totalPaidOut

\* the journal rows of a type written for a session
JournalRowsOfType(sessionId, type) ==
    {n \in JournalRowsOf(sessionId) : transactions[n].type = type}

\* C28: however the end calls for a session interleave, the session is
\* settled once: at most one reading_payment row and one reading_earning row
\* per session, and the reader's total_readings counts no settled session
\* twice.
C28_SettledOnce ==
    /\ \A s \in DOMAIN readingSessions :
          /\ Cardinality(JournalRowsOfType(s, "reading_payment")) <= 1
          /\ Cardinality(JournalRowsOfType(s, "reading_earning")) <= 1
    /\ \A r \in Readers :
          readerProfiles[r].totalReadings
            <= Cardinality({s \in DOMAIN readingSessions :
                   readingSessions[s].readerId = r /\ JournalRowsOf(s) # {}})

\* C29: after a successful request the notification published to the reader
\* carries the tag the reader's subscriber matches, so a connected reader
\* gets the accept/decline prompt for the session.
C29_RequestRaisesPrompt ==
    Succeeded("request") =>
        response.sessionId
            \in IncomingRequests(readingSessions[response.sessionId].readerId)

\* the sum of the amounts of the first n transfers made to the reader whose
\* profile row has the given id
RECURSIVE Transferred(_, _)
Transferred(readerId, n) ==
    IF n = 0 THEN 0
    ELSE Transferred(readerId, n - 1)
           + (IF transfers[n].readerId = readerId THEN transfers[n].amount ELSE 0)

TransferFails == PayoutFail /\ job.step = "transfer"

C34_RatingIsMeanOfReviews ==
    Quiescent =>
        \A r \in Readers :
            /\ readerProfiles[r].rating = AvgRating(r)
            /\ readerProfiles[r].totalReviews = ReviewCount(r)

\* C35: an accept or a decline by anyone but the session's reader, and an end
\* by anyone who is neither its client nor its reader, is rejected and
\* changes nothing: the session rows, both profiles (the reader's status
\* among them), the journal and the published messages are unchanged.
C35_OnlyPartiesAct ==
    [][\A w \in Workers, u \in Users, s \in SessionIds :
          s \in DOMAIN readingSessions =>
            /\ (readingSessions[s].readerId # u /\ AcceptStart(w, u, s))
                 => (/\ response' = Err("accept", u, s, "", "ValidationError",
                                        "Only the reader can accept this session")
                     /\ UNCHANGED <<db, published, pc>>)
            /\ (readingSessions[s].readerId # u /\ DeclineStart(w, u, s))
                 => (/\ response' = Err("decline", u, s, "", "ValidationError",
                                        "Only the reader can decline this session")
                     /\ UNCHANGED <<db, published, pc>>)
            /\ (readingSessions[s].readerId # u /\ readingSessions[s].clientId # u
                  /\ EndStart(w, u, s))
                 => (/\ response' = Err("end", u, s, "", "ValidationError",
                                        "Not authorized to end this session")
                     /\ UNCHANGED <<db, published, pc>>)]_vars

\* the client of a pending session has just been refused its accept
C35_Witness ==
    /\ Rejected("accept")
    /\ response.message = "Only the reader can accept this session"
    /\ readingSessions[response.sessionId].status = "pending"
    /\ readingSessions[response.sessionId].clientId = response.user

\* the refund rows written for a transaction
RefundRowsOf(transactionId) ==
    {n \in DOMAIN transactions :
        /\ transactions[n].type = "refund"
        /\ transactions[n].originalTransactionId = transactionId}

\* C36: every transaction is refunded at most once, also when refund
\* requests for it run concurrently: the journal holds at most one refund
\* row per transaction.
C36_OneRefundPerTransaction ==
    \A t \in DOMAIN transactions : Cardinality(RefundRowsOf(t)) <= 1

\* a non-negative value in tenths of a cent rounded to whole cents, a tie
\* going to the even cent
HalfEven(mills) ==
    LET q == mills \div 10
        r == mills % 10
    IN IF r < 5 THEN q
       ELSE IF r > 5 THEN q + 1
       ELSE IF q % 2 = 0 THEN q ELSE q + 1

\* C37: for every completed session the stored platform_fee is 30% of the
\* stored total_amount rounded to whole cents, half to even.
C37_FeeRoundedHalfEven ==
    \A s \in DOMAIN readingSessions :
        readingSessions[s].status = "completed" =>
            readingSessions[s].platformFee
                = HalfEven((readingSessions[s].totalAmount * 30) \div 10)

\* the requests of a subject the limiter admitted in the 60 seconds from t
AdmittedIn(u, t) ==
    {j \in DOMAIN limiter.admitted :
        /\ limiter.admitted[j].user = u
        /\ limiter.admitted[j].time >= t
        /\ limiter.admitted[j].time < t + 60000}

\* C38: in any interval of 60 seconds, wherever it starts, at most 3 session
\* requests of one subject are admitted; a request that is not admitted
\* creates no session row.
C38_SlidingWindowLimit ==
    /\ \A i \in DOMAIN limiter.admitted :
          Cardinality(AdmittedIn(limiter.admitted[i].user, limiter.admitted[i].time)) <= 3
    /\ Len(readingSessions) <= Len(limiter.admitted)

\* C39: a publish that fails during accept or end does not make the
\* operation answer with an error once its state change is stored (the
\* publish is retried and the operation succeeds): no accept answers with an
\* error while its session is active and its reader in_session, and no end
\* answers with an error while its session is completed and settled.
C39_PublishFailureNotReported ==
    /\ (response.op = "accept" /\ response.error = "Error")
          => ~(/\ readingSessions[response.sessionId].status = "active"
               /\ readerProfiles[response.user].status = "in_session")
    /\ (response.op = "end" /\ response.error = "Error")
          => ~(/\ readingSessions[response.sessionId].status = "completed"
               /\ JournalRowsOf(response.sessionId) # {})

====
